---- MODULE Spec2Model ----
(***************************************************************************)
(* A model of the ad_optimizer core: the A/B test registry and analysis of *)
(* components/ab_testing/ab_test_manager.py, the fatigue classifier of     *)
(* components/optimizer/fatigue_detector.py, and the agent actions and     *)
(* their approval queue of components/agent/actions.py.                    *)
(*                                                                         *)
(* Numbers.  Python floats are modelled by exact rationals [n, d] kept in  *)
(* lowest terms with d > 0.  Money columns (spend, revenue) are carried in *)
(* cents, so that int(total_spend) is a real truncation.  A square root is *)
(* carried by its square, and a p-value 2*(1 - cdf(|z|)) by z*z, of which  *)
(* it is a strictly decreasing function.                                   *)
(***************************************************************************)
EXTENDS Integers, Sequences, FiniteSets, TLC

VARIABLES
    cache,      \* ABTestManager._cache: test_id -> ABTest
    call,       \* the last ABTestManager call: its name and arguments
    ret,        \* what that call returned
    request,    \* the arguments analyze_test is called with in this run
    perf,       \* the performance table handed to detect_fatigue
    flags,      \* what detect_fatigue returned for it (None before the call)
    threads,    \* the analyze_test calls in flight: each thread's position and locals
    actions,    \* what actions_from_fatigue returned (None before the call)
    queue,      \* the approval queue file: the list of actions it holds
    qcall,      \* the last ApprovalQueue call: its name, arguments and return
    clients     \* the ApprovalQueue calls in flight: each client's position and locals

vars == <<cache, call, ret, request, perf, flags, threads, actions, queue, qcall, clients>>

None == "None"

\* ------------------------------------------------------------ rationals

RECURSIVE GCD(_, _)
GCD(a, b) == IF b = 0 THEN a ELSE GCD(b, a % b)

Abs(x) == IF x < 0 THEN -x ELSE x

\* n/d in lowest terms, d > 0
Norm(n, d) ==
    LET g == GCD(Abs(n), d)
    IN  [n |-> n \div g, d |-> d \div g]

RInt(k)    == [n |-> k, d |-> 1]
RZero      == RInt(0)
ROne       == RInt(1)
\* sums over the least common denominator, so that the products stay small
RAdd(x, y) ==
    LET g == GCD(x.d, y.d)
    IN  Norm(x.n * (y.d \div g) + y.n * (x.d \div g), (x.d \div g) * y.d)
RSub(x, y) == RAdd(x, [n |-> -y.n, d |-> y.d])
\* cross-cancelled, so that the products stay small
RMul(x, y) ==
    LET a == Norm(x.n, y.d)
        b == Norm(y.n, x.d)
    IN  [n |-> a.n * b.n, d |-> a.d * b.d]
\* x / y for y > 0
RDiv(x, y) == RMul(x, [n |-> y.d, d |-> y.n])
\* a/b < c/d for a, c >= 0 and b, d > 0, by continued fractions: no product
\* is formed, so none overflows
RECURSIVE FracLt(_, _, _, _)
FracLt(a, b, c, d) ==
    IF a \div b # c \div d THEN a \div b < c \div d
    ELSE IF c % d = 0 THEN FALSE
    ELSE IF a % b = 0 THEN TRUE
    ELSE FracLt(d, c % d, b, a % b)

RLt(x, y)  ==
    IF x.n < 0
    THEN (IF y.n < 0 THEN FracLt(-y.n, y.d, -x.n, x.d) ELSE TRUE)
    ELSE (IF y.n < 0 THEN FALSE ELSE FracLt(x.n, x.d, y.n, y.d))
RLe(x, y)  == ~RLt(y, x)
RMax(x, y) == IF RLt(x, y) THEN y ELSE x

\* round-half-to-even of x >= 0 to an integer (Python round, numpy round)
RoundHalfEven(x) ==
    LET q == x.n \div x.d
        r == x.n - q * x.d
    IN  IF 2 * r < x.d THEN q
        ELSE IF 2 * r > x.d THEN q + 1
        ELSE IF q % 2 = 0 THEN q ELSE q + 1

\* round(x, 3)
Round3(x) == Norm(RoundHalfEven(RMul(x, RInt(1000))), 1000)
\* (x * 100).round(2)
Pct2(x) == Norm(RoundHalfEven(RMul(RMul(x, RInt(100)), RInt(100))), 100)

\* ------------------------------------------------------------ bounds and inputs

MaxTests    == 1     \* tests created in one run
MaxPerfRows == 2     \* rows of a performance table handed to analyze_test

TestIds     == 1..(MaxTests + 1)       \* test ids; one is never allocated
CreativeIds == {"cr1", "cr2"}
Slots       == {"a", "b", "c", "d"}
Metrics     == {"ctr", "cvr", "cpa", "roas", "other"}
Stamp       == "now"                   \* a value of datetime.now()

\* confidence_level arguments
ConfLevels == {RZero, Norm(1, 2), Norm(95, 100), ROne}

\* (impressions, clicks, conversions, spend in cents, revenue in cents) of a row:
\* a large-sample campaign and a small-sample one
LargeProfiles ==
    { <<100000, 10000, 1000, 50000, 45000>>,
      <<100000,  5000, 1000, 10000,  1000>> }

SmallProfiles ==
    { <<100, 10, 1, 150, 100>>,
      <<100, 12, 0, 0, 0>>,
      <<10, 10, 10, 100, 100>>,
      <<0, 0, 0, 0, 0>> }

PerfRow(cid, p) ==
    [creative_id |-> cid, impressions |-> p[1], clicks |-> p[2],
     conversions |-> p[3], spend |-> p[4], revenue |-> p[5]]

PerfRows(profiles) == {PerfRow(cid, p) : cid \in CreativeIds, p \in profiles}

\* the performance tables handed to analyze_test: up to MaxPerfRows rows of
\* one campaign
PerfTables ==
    UNION {[1..n -> PerfRows(SmallProfiles)] \cup [1..n -> PerfRows(LargeProfiles)] :
              n \in 0..MaxPerfRows}

\* traffic_split arguments a caller supplies
EvenSplit   == [s \in {"a", "b"} |-> Norm(1, 2)]
UnevenSplit == [s \in {"a", "b"} |-> IF s = "a" THEN Norm(7, 10) ELSE Norm(1, 2)]

SuppliedSplits == {EvenSplit, UnevenSplit}

\* ------------------------------------------------------------ ABTestManager

\* the slots create_test and analyze_test take as registered: a, b, and c, d
\* when their id is truthy
HasSlot(id) == id # None /\ id # ""

NumVariants(c, d) == 2 + (IF HasSlot(c) THEN 1 ELSE 0) + (IF HasSlot(d) THEN 1 ELSE 0)

DefaultSplit(c, d) ==
    [s \in {"a", "b"} \cup (IF HasSlot(c) THEN {"c"} ELSE {})
                      \cup (IF HasSlot(d) THEN {"d"} ELSE {})
        |-> Norm(1, NumVariants(c, d))]

\* an absent Optional[float] / an empty dict, typed so that they compare with
\* the values that replace them
NoFloat   == [kind |-> "none"]
EmptyDict == [s \in {} |-> None]
\* a traffic_split that "not traffic_split" takes as not supplied (None, {})
NoSplit   == EmptyDict

NewTest(a, b, c, d, split) ==
    [status           |-> "draft",
     variant_a_id     |-> a,
     variant_b_id     |-> b,
     variant_c_id     |-> c,
     variant_d_id     |-> d,
     traffic_split    |-> IF split = NoSplit THEN DefaultSplit(c, d) ELSE split,
     start_date       |-> None,
     end_date         |-> None,
     winner           |-> None,
     confidence_level |-> NoFloat,
     metrics          |-> EmptyDict,
     created_at       |-> Stamp,
     updated_at       |-> Stamp]

\* self._cache.get(test_id): the test, or None
NoTest == [kind |-> "None"]

LookupWithDefault(test_id) ==
    IF test_id \in DOMAIN cache THEN cache[test_id]
    ELSE [status |-> "draft", variant_a_id |-> "", variant_b_id |-> "",
          variant_c_id |-> None, variant_d_id |-> None,
          traffic_split |-> [s \in {"a", "b"} |-> [n |-> 1, d |-> 2]],
          start_date |-> None, end_date |-> None, winner |-> None,
          confidence_level |-> [kind |-> "none"], metrics |-> [s \in {} |-> None],
          created_at |-> None, updated_at |-> None]

Lookup(test_id) == IF test_id \in DOMAIN cache THEN cache[test_id] ELSE NoTest

\* "if not test"
Registered(test_id) == Lookup(test_id) # NoTest

\* the registry after a write on the object that Lookup(test_id) returned
Store(test_id, test) ==
    [t \in DOMAIN cache |-> IF t = test_id THEN test ELSE cache[t]]

\* return values
RetBool(b)    == [kind |-> "bool", value |-> b]
RetTest(id)   == [kind |-> "test", test_id |-> id]
RetEmpty      == [kind |-> "dict", empty |-> TRUE]
RetNothing    == [kind |-> "nothing"]
NoCall        == [op |-> "none", test_id |-> 0]

\* what start_test, pause_test and complete_test write on a registered test
Started(test) ==
    [test EXCEPT !.status = "running", !.start_date = Stamp, !.updated_at = Stamp]

Paused(test) ==
    [test EXCEPT !.status = "paused", !.updated_at = Stamp]

Completed(test, winner) ==
    [test EXCEPT !.status = "completed", !.end_date = Stamp,
                 !.winner = winner, !.updated_at = Stamp]

\* str(uuid.uuid4()): an id no test has; ids are opaque, so the model takes
\* the least one
FreshId == CHOOSE id \in TestIds \ DOMAIN cache :
               \A other \in TestIds \ DOMAIN cache : id <= other

create_test(configs) ==
    /\ Cardinality(DOMAIN cache) < MaxTests
    /\ \E test_id \in {FreshId} :
       \E cf \in configs :
          /\ cache' = [t \in DOMAIN cache \cup {test_id} |->
                          IF t = test_id
                          THEN NewTest(cf.a, cf.b, cf.c, cf.d, cf.split)
                          ELSE cache[t]]
          /\ call' = [op |-> "create_test", test_id |-> test_id]
          /\ ret' = RetTest(test_id)
    /\ UNCHANGED <<request, perf, flags, threads, actions, queue, qcall, clients>>

start_test ==
    /\ \E test_id \in TestIds :
          /\ call' = [op |-> "start_test", test_id |-> test_id]
          /\ IF ~Registered(test_id)
             THEN /\ ret' = RetBool(FALSE)
                  /\ UNCHANGED cache
             ELSE /\ cache' = Store(test_id, Started(Lookup(test_id)))
                  /\ ret' = RetBool(TRUE)
    /\ UNCHANGED <<request, perf, flags, threads, actions, queue, qcall, clients>>

pause_test ==
    /\ \E test_id \in TestIds :
          /\ call' = [op |-> "pause_test", test_id |-> test_id]
          /\ IF ~Registered(test_id)
             THEN /\ ret' = RetBool(FALSE)
                  /\ UNCHANGED cache
             ELSE /\ cache' = Store(test_id, Paused(Lookup(test_id)))
                  /\ ret' = RetBool(TRUE)
    /\ UNCHANGED <<request, perf, flags, threads, actions, queue, qcall, clients>>

complete_test ==
    /\ \E test_id \in TestIds :
       \E winner \in Slots \cup {None} :
          /\ call' = [op |-> "complete_test", test_id |-> test_id, winner |-> winner]
          /\ IF ~Registered(test_id)
             THEN /\ ret' = RetBool(FALSE)
                  /\ UNCHANGED cache
             ELSE /\ cache' = Store(test_id, Completed(Lookup(test_id), winner))
                  /\ ret' = RetBool(TRUE)
    /\ UNCHANGED <<request, perf, flags, threads, actions, queue, qcall, clients>>

\* ------------------------------------------------------------ analyze_test

\* the value of the first row in place of the sum
FirstOfCol(rows, col) == IF rows = <<>> THEN 0 ELSE Head(rows)[col]

\* df[col].sum()
RECURSIVE SumCol(_, _)
SumCol(rows, col) ==
    IF rows = <<>> THEN 0 ELSE Head(rows)[col] + SumCol(Tail(rows), col)

\* performance_data[performance_data["creative_id"] == creative_id]
VariantData(table, creative_id) ==
    SelectSeq(table, LAMBDA r : r.creative_id = creative_id)

\* the variants dict: a and b always, c and d when their id is truthy
Variants(test) ==
    [s \in {"a", "b"} \cup (IF HasSlot(test.variant_c_id) THEN {"c"} ELSE {})
                      \cup (IF HasSlot(test.variant_d_id) THEN {"d"} ELSE {})
        |-> CASE s = "a" -> test.variant_a_id
              [] s = "b" -> test.variant_b_id
              [] s = "c" -> test.variant_c_id
              [] s = "d" -> test.variant_d_id]

\* metric_value of the requested metric from a variant's totals
MetricValue(metric, imp, clk, conv, spend, rev) ==
    CASE metric = "ctr"  -> IF imp > 0 THEN Norm(clk, imp) ELSE RZero
      [] metric = "cvr"  -> IF clk > 0 THEN Norm(conv, clk) ELSE RZero
      [] metric = "cpa"  -> IF conv > 0 THEN Norm(spend, 100 * conv) ELSE RZero
      [] metric = "roas" -> IF spend > 0 THEN Norm(rev, spend) ELSE RZero
      [] OTHER           -> RZero

\* sample_size of the requested metric; int(total_spend) truncates the cents
SampleSize(metric, imp, clk, conv, spend, rev) ==
    CASE metric = "ctr"  -> imp
      [] metric = "cvr"  -> clk
      [] metric = "cpa"  -> conv
      [] metric = "roas" -> spend \div 100
      [] OTHER           -> 0

\* std_error, carried by its square: np.sqrt(p * (1 - p) / n) for ctr and cvr
\* with n > 0 (nan when the radicand is negative), 0 otherwise
StdError(metric, metric_value, sample_size) ==
    IF metric \in {"ctr", "cvr"} /\ sample_size > 0
    THEN LET sq == RDiv(RMul(metric_value, RSub(ROne, metric_value)), RInt(sample_size))
         IN  IF sq.n < 0 THEN [kind |-> "nan"] ELSE [kind |-> "sqrt", of |-> sq]
    ELSE [kind |-> "sqrt", of |-> RZero]

\* results[variant_name] for one variant
VariantResult(metric, creative_id, table) ==
    LET variant_data == VariantData(table, creative_id)
        imp   == SumCol(variant_data, "impressions")
        clk   == SumCol(variant_data, "clicks")
        conv  == SumCol(variant_data, "conversions")
        spend == SumCol(variant_data, "spend")
        rev   == SumCol(variant_data, "revenue")
        mv    == MetricValue(metric, imp, clk, conv, spend, rev)
        n     == SampleSize(metric, imp, clk, conv, spend, rev)
    IN  IF variant_data = <<>>
        THEN [creative_id  |-> creative_id,
              metric_value |-> RZero,
              sample_size  |-> 0,
              std_error    |-> [kind |-> "sqrt", of |-> RZero]]
        ELSE [creative_id  |-> creative_id,
              metric_value |-> mv,
              sample_size  |-> n,
              std_error    |-> StdError(metric, mv, n),
              impressions  |-> imp,
              clicks       |-> clk,
              conversions  |-> conv,
              spend        |-> spend,
              revenue      |-> rev]

Results(test, metric, table) ==
    LET variants == Variants(test)
    IN  [s \in DOMAIN variants |-> VariantResult(metric, variants[s], table)]

\* p-values: 1.0, or 2 * (1 - norm.cdf(|z|)) for z # 0, carried by z * z
POne       == [kind |-> "one"]
PTail(z2)  == [kind |-> "tail", z2 |-> z2]

\* the square of the z with 2 * (1 - norm.cdf(z)) = 1 - confidence_level, to
\* four decimals (scipy.stats.norm), for the confidence levels of the model
CritZ2(confidence_level) ==
    CASE confidence_level = Norm(1, 2)    -> Norm(4549, 10000)
      [] confidence_level = Norm(95, 100) -> Norm(38415, 10000)
      [] confidence_level = Norm(99, 100) -> Norm(66349, 10000)

\* p_value <= (1 - confidence_level)
PLessOrEqual(p_value, confidence_level) ==
    IF p_value = POne
    THEN RLe(confidence_level, RZero)
    ELSE IF RLe(confidence_level, RZero) THEN TRUE
         ELSE IF RLe(ROne, confidence_level) THEN FALSE
         ELSE RLe(CritZ2(confidence_level), p_value.z2)

\* p_value < (1 - confidence_level)
PLess(p_value, confidence_level) ==
    IF p_value = POne
    THEN RLt(confidence_level, RZero)
    ELSE IF RLe(confidence_level, RZero) THEN TRUE
         ELSE IF RLe(ROne, confidence_level) THEN FALSE
         ELSE RLt(CritZ2(confidence_level), p_value.z2)

\* p_pool = (p1 * n1 + p2 * n2) / (n1 + n2)
PPool(p1, n1, p2, n2) ==
    RDiv(RAdd(RMul(p1, RInt(n1)), RMul(p2, RInt(n2))), RInt(n1 + n2))

ZSquaredSumSlip(p1, n1, p2, n2, p_pool) ==
    LET se2 == RMul(RMul(p_pool, RSub(ROne, p_pool)), RAdd(Norm(1, n1), Norm(1, n2)))
        d   == RAdd(p1, p2)
    IN  RDiv(RMul(d, d), se2)

\* z_score * z_score, for z_score = (p1 - p2) / se_pool and
\* se_pool = sqrt(p_pool * (1 - p_pool) * (1/n1 + 1/n2)) > 0
ZSquared(p1, n1, p2, n2, p_pool) ==
    LET se2 == RMul(RMul(p_pool, RSub(ROne, p_pool)), RAdd(Norm(1, n1), Norm(1, n2)))
        d   == RSub(p1, p2)
    IN  RDiv(RMul(d, d), se2)

\* p_value = 2 * (1 - stats.norm.cdf(abs(z_score)))
PValue(z2) == IF z2 = RZero THEN POne ELSE PTail(z2)

WinnerSwapped(p1, p2) == IF RLt(p2, p1) THEN "b" ELSE "a"

\* winner = "a" if p1 > p2 else "b"
WinnerOf(p1, p2) == IF RLt(p2, p1) THEN "a" ELSE "b"

\* the z test of slots a and b: [winner, p_value]
ZTest(results, confidence_level) ==
    LET a_data == results["a"]
        b_data == results["b"]
        p1 == a_data.metric_value
        p2 == b_data.metric_value
        n1 == a_data.sample_size
        n2 == b_data.sample_size
        p_pool  == PPool(p1, n1, p2, n2)
        p_value == PValue(ZSquared(p1, n1, p2, n2, p_pool))
        untested == [winner |-> None, p_value |-> POne]
    IN  IF Cardinality(DOMAIN results) >= 2 /\ n1 > 0 /\ n2 > 0
        THEN IF RLt(RZero, p_pool) /\ RLt(p_pool, ROne)
             THEN [winner  |-> IF PLess(p_value, confidence_level)
                               THEN WinnerOf(p1, p2)
                               ELSE None,
                   p_value |-> p_value]
             ELSE untested
        ELSE untested

\* test.confidence_level = 1 - p_value if p_value < 1 else 0
StoredConfidence(p_value) ==
    IF p_value = POne THEN [kind |-> "zero"] ELSE [kind |-> "cdf", z2 |-> p_value.z2]

\* an update that leaves the winner of the test as it was
AnalyzedKeepingWinner(test, results, z) ==
    [test EXCEPT !.metrics = results,
                 !.confidence_level = StoredConfidence(z.p_value),
                 !.updated_at = Stamp]

\* the fields analyze_test writes on the test
Analyzed(test, results, z) ==
    [test EXCEPT !.metrics = results,
                 !.confidence_level = StoredConfidence(z.p_value),
                 !.winner = z.winner,
                 !.updated_at = Stamp]

\* the analysis dict
Analysis(test_id, metric, confidence_level, results, z) ==
    [kind             |-> "dict",
     empty            |-> FALSE,
     test_id          |-> test_id,
     metric           |-> metric,
     variants         |-> results,
     winner           |-> z.winner,
     p_value          |-> z.p_value,
     confidence_level |-> StoredConfidence(z.p_value),
     is_significant   |-> PLess(z.p_value, confidence_level)]

analyze_test ==
    /\ \E test_id \in TestIds :
          /\ call' = [op |-> "analyze_test", test_id |-> test_id]
          /\ IF ~Registered(test_id)
             THEN /\ ret' = RetEmpty
                  /\ UNCHANGED cache
             ELSE LET test == Lookup(test_id)
                      results == Results(test, request.metric, request.table)
                      z == ZTest(results, request.confidence_level)
                  IN  /\ cache' = Store(test_id, Analyzed(test, results, z))
                      /\ ret' = Analysis(test_id, request.metric,
                                         request.confidence_level, results, z)
    /\ UNCHANGED <<request, perf, flags, threads, actions, queue, qcall, clients>>

\* get_test_summary: a read-only projection
Summary(test_id, test) ==
    [kind             |-> "dict",
     empty            |-> FALSE,
     test_id          |-> test_id,
     status           |-> test.status,
     winner           |-> test.winner,
     confidence_level |-> test.confidence_level,
     metrics          |-> test.metrics,
     start_date       |-> test.start_date,
     end_date         |-> test.end_date]

get_test_summary ==
    /\ \E test_id \in TestIds :
          /\ call' = [op |-> "get_test_summary", test_id |-> test_id]
          /\ ret' = IF ~Registered(test_id) THEN RetEmpty
                    ELSE Summary(test_id, Lookup(test_id))
    /\ UNCHANGED <<cache, request, perf, flags, threads, actions, queue, qcall, clients>>

\* ------------------------------------------------ analyze_test, step by step

\* Threads that call analyze_test on one manager.  The method takes no lock:
\* between two of its statements another thread may run.  A thread is at
\* "idle" before its call, at the name of the field it writes next during the
\* call, and at "done" after it.
Threads == {"t1", "t2"}

Untested == [winner |-> None, p_value |-> POne]

IdleThread ==
    [pc |-> "idle", test_id |-> 0, confidence_level |-> RZero, metric |-> "",
     results |-> EmptyDict, z |-> Untested]

NoThreads == [t \in Threads |-> IdleThread]

\* lines 131-232: the lookup, and the results and the test from the arguments
analyze_compute(t, test_id, req) ==
    /\ threads[t].pc = "idle"
    /\ call' = [op |-> "analyze_test", test_id |-> test_id]
    /\ IF ~Registered(test_id)
       THEN /\ ret' = RetEmpty
            /\ threads' = [threads EXCEPT ![t].pc = "done"]
       ELSE LET results == Results(Lookup(test_id), req.metric, req.table)
            IN  /\ threads' = [threads EXCEPT ![t] =
                       [pc |-> "metrics", test_id |-> test_id,
                        confidence_level |-> req.confidence_level,
                        metric |-> req.metric, results |-> results,
                        z |-> ZTest(results, req.confidence_level)]]
                /\ UNCHANGED ret
    /\ UNCHANGED <<cache, request, perf, flags, actions, queue, qcall, clients>>

\* line 235: test.metrics = results
analyze_store_metrics(t) ==
    /\ threads[t].pc = "metrics"
    /\ cache' = Store(threads[t].test_id,
                      [cache[threads[t].test_id] EXCEPT !.metrics = threads[t].results])
    /\ threads' = [threads EXCEPT ![t].pc = "confidence_level"]
    /\ UNCHANGED <<call, ret, request, perf, flags, actions, queue, qcall, clients>>

\* line 236: test.confidence_level = 1 - p_value if p_value < 1 else 0
analyze_store_confidence(t) ==
    /\ threads[t].pc = "confidence_level"
    /\ cache' = Store(threads[t].test_id,
                      [cache[threads[t].test_id] EXCEPT
                          !.confidence_level = StoredConfidence(threads[t].z.p_value)])
    /\ threads' = [threads EXCEPT ![t].pc = "winner"]
    /\ UNCHANGED <<call, ret, request, perf, flags, actions, queue, qcall, clients>>

\* line 237: test.winner = winner
analyze_store_winner(t) ==
    /\ threads[t].pc = "winner"
    /\ cache' = Store(threads[t].test_id,
                      [cache[threads[t].test_id] EXCEPT !.winner = threads[t].z.winner])
    /\ threads' = [threads EXCEPT ![t].pc = "return"]
    /\ UNCHANGED <<call, ret, request, perf, flags, actions, queue, qcall, clients>>

\* lines 238-251: test.updated_at, and the analysis, whose confidence_level
\* is read back from the test
analyze_return(t) ==
    /\ threads[t].pc = "return"
    /\ cache' = Store(threads[t].test_id,
                      [cache[threads[t].test_id] EXCEPT !.updated_at = Stamp])
    /\ call' = [op |-> "analyze_test", test_id |-> threads[t].test_id]
    /\ ret' = [Analysis(threads[t].test_id, threads[t].metric,
                        threads[t].confidence_level, threads[t].results, threads[t].z)
                  EXCEPT !.confidence_level = cache[threads[t].test_id].confidence_level]
    /\ threads' = [threads EXCEPT ![t].pc = "done"]
    /\ UNCHANGED <<request, perf, flags, actions, queue, qcall, clients>>

\* ------------------------------------------------------------ detect_fatigue

RECENT_WINDOW_DAYS     == 7
BASELINE_WINDOW_DAYS   == 30
MIN_RECENT_IMPRESSIONS == 500
FATIGUE_THRESHOLD      == Norm(5, 10)
RISK_THRESHOLD         == Norm(3, 10)

\* the order of creative ids that sort_values and groupby use
CidRank(creative_id) ==
    CASE creative_id = "c1" -> 1
      [] creative_id = "c2" -> 2
      [] OTHER -> 3

\* row x sorts before row y by ["creative_id", "dt"]
SortsBefore(x, y) ==
    \/ CidRank(x.creative_id) < CidRank(y.creative_id)
    \/ (x.creative_id = y.creative_id /\ x.dt < y.dt)

RECURSIVE Insert(_, _)
Insert(sorted, row) ==
    IF sorted = <<>> THEN <<row>>
    ELSE IF SortsBefore(row, Head(sorted)) THEN <<row>> \o sorted
    ELSE <<Head(sorted)>> \o Insert(Tail(sorted), row)

\* df.sort_values(["creative_id", "dt"]): rows that compare equal keep their order
RECURSIVE SortValues(_)
SortValues(rows) ==
    IF rows = <<>> THEN <<>>
    ELSE Insert(SortValues(SubSeq(rows, 1, Len(rows) - 1)), rows[Len(rows)])

\* the creative ids of a frame, in the order groupby lists them
CidSet(rows) == {rows[i].creative_id : i \in DOMAIN rows}

RECURSIVE SetToSortedSeq(_)
SetToSortedSeq(cids) ==
    IF cids = {} THEN <<>>
    ELSE LET least == CHOOSE c \in cids : \A o \in cids : CidRank(c) <= CidRank(o)
         IN  <<least>> \o SetToSortedSeq(cids \ {least})

\* the first date of the frame in place of the last
MinDate(rows) ==
    CHOOSE m \in {rows[i].dt : i \in DOMAIN rows} : \A i \in DOMAIN rows : rows[i].dt >= m

\* df["dt"].max()
MaxDate(rows) ==
    CHOOSE m \in {rows[i].dt : i \in DOMAIN rows} : \A i \in DOMAIN rows : rows[i].dt <= m

\* a window that leaves its first day out
SinceAfter(rows, cutoff) == SelectSeq(rows, LAMBDA r : r.dt > cutoff)

\* df[df["dt"] >= cutoff]
Since(rows, cutoff) == SelectSeq(rows, LAMBDA r : r.dt >= cutoff)

\* a quotient with a denominator of zero read as one
RatioOverAtLeastOne(a, b) == Norm(a, IF b = 0 THEN 1 ELSE b)

\* (a / b).replace([inf, -inf], 0.0).fillna(0.0), for a >= 0 and b >= 0
Ratio(a, b) == IF b = 0 THEN RZero ELSE Norm(a, b)

\* one row of _aggregate_metrics; spend and revenue are sums of cents
AggregateRow(rows) ==
    LET imp   == SumCol(rows, "impressions")
        clk   == SumCol(rows, "clicks")
        conv  == SumCol(rows, "conversions")
        spend == SumCol(rows, "spend")
        rev   == SumCol(rows, "revenue")
    IN  [impressions |-> imp, clicks |-> clk, conversions |-> conv,
         spend |-> spend, revenue |-> rev,
         ctr  |-> Ratio(clk, imp),
         cvr  |-> Ratio(conv, clk),
         roas |-> Ratio(rev, spend),
         cpa  |-> Ratio(spend, 100 * conv),
         cpc  |-> Ratio(spend, 100 * clk)]

\* _aggregate_metrics(df): creative_id -> its row; empty for an empty frame
AggregateMetrics(rows) ==
    [cid \in CidSet(rows) |->
        AggregateRow(SelectSeq(rows, LAMBDA r : r.creative_id = cid))]

\* what .join(..., how="left").fillna(0.0) leaves for a creative the window lacks
ZeroMetrics ==
    [impressions |-> 0, clicks |-> 0, conversions |-> 0, spend |-> 0, revenue |-> 0,
     ctr |-> RZero, cvr |-> RZero, roas |-> RZero, cpa |-> RZero, cpc |-> RZero]

JoinLeft(metrics, cid) == IF cid \in DOMAIN metrics THEN metrics[cid] ELSE ZeroMetrics

RelativeDrop(recent, baseline) ==
    IF RLe(baseline, RZero) THEN RZero
    ELSE RMax(RDiv(RSub(baseline, recent), baseline), RZero)

RelativeIncrease(recent, baseline) ==
    IF RLe(baseline, RZero) THEN RZero
    ELSE RMax(RDiv(RSub(recent, baseline), baseline), RZero)

\* 0.35 * ctr_d + 0.25 * cvr_d + 0.25 * roas_d + 0.10 * cpa_inc + 0.05 * cpc_inc
Score(ctr_d, cvr_d, roas_d, cpa_inc, cpc_inc) ==
    RAdd(RAdd(RAdd(RAdd(RMul(Norm(35, 100), ctr_d),
                        RMul(Norm(25, 100), cvr_d)),
                   RMul(Norm(25, 100), roas_d)),
              RMul(Norm(10, 100), cpa_inc)),
         RMul(Norm(5, 100), cpc_inc))

\* _compose_notes: the drivers, which ", ".join puts in one string
ComposeNotes(ctr_d, cvr_d, roas_d, cpa_inc, cpc_inc) ==
    LET drivers ==
            (IF RLe(Norm(25, 100), ctr_d) THEN <<"CTR down">> ELSE <<>>)
         \o (IF RLe(Norm(2, 10), cvr_d) THEN <<"CVR down">> ELSE <<>>)
         \o (IF RLe(Norm(2, 10), roas_d) THEN <<"ROAS down">> ELSE <<>>)
         \o (IF RLe(Norm(2, 10), cpa_inc) THEN <<"CPA up">> ELSE <<>>)
         \o (IF RLe(Norm(2, 10), cpc_inc) THEN <<"CPC up">> ELSE <<>>)
    IN  IF drivers = <<>> THEN <<"Performance stable">> ELSE drivers

InsufficientNote == <<"Insufficient recent volume (<500 impressions)">>

\* a status that takes no account of the recent volume
StatusOfScore(recent_impr, score) ==
    IF RLe(FATIGUE_THRESHOLD, score) THEN "fatigued"
    ELSE IF RLe(RISK_THRESHOLD, score) THEN "fatigue-risk"
    ELSE "fresh"

\* the status the loop appends for a row
Status(recent_impr, score) ==
    IF recent_impr < MIN_RECENT_IMPRESSIONS THEN "fresh"
    ELSE IF RLe(FATIGUE_THRESHOLD, score) THEN "fatigued"
    ELSE IF RLe(RISK_THRESHOLD, score) THEN "fatigue-risk"
    ELSE "fresh"

\* the score column: fatigue_scores.append(round(score, 3))
ReportedScore(score) == Round3(score)

\* the row of the result for one creative, before campaign_name is merged in
FatigueRow(cid, total, recent, baseline) ==
    LET ctr_d   == RelativeDrop(recent.ctr, baseline.ctr)
        cvr_d   == RelativeDrop(recent.cvr, baseline.cvr)
        roas_d  == RelativeDrop(recent.roas, baseline.roas)
        cpa_inc == RelativeIncrease(recent.cpa, baseline.cpa)
        cpc_inc == RelativeIncrease(recent.cpc, baseline.cpc)
        score   == Score(ctr_d, cvr_d, roas_d, cpa_inc, cpc_inc)
    IN  [creative_id    |-> cid,
         status         |-> Status(recent.impressions, score),
         fatigue_score  |-> ReportedScore(score),
         impressions    |-> total.impressions,
         clicks         |-> total.clicks,
         ctr            |-> Pct2(total.ctr),
         conversions    |-> total.conversions,
         spend          |-> total.spend,
         revenue        |-> total.revenue,
         ctr_drop       |-> Round3(ctr_d),
         cvr_drop       |-> Round3(cvr_d),
         roas_drop      |-> Round3(roas_d),
         cpa_increase   |-> Round3(cpa_inc),
         cpc_increase   |-> Round3(cpc_inc),
         notes          |-> IF recent.impressions < MIN_RECENT_IMPRESSIONS
                            THEN InsufficientNote
                            ELSE ComposeNotes(ctr_d, cvr_d, roas_d, cpa_inc, cpc_inc),
         impressions_7d |-> recent.impressions,
         ctr_7d         |-> Pct2(recent.ctr),
         ctr_30d        |-> Pct2(baseline.ctr),
         roas_7d        |-> recent.roas,
         roas_30d       |-> baseline.roas,
         cvr_7d         |-> Pct2(recent.cvr),
         cvr_30d        |-> Pct2(baseline.cvr),
         cpa_7d         |-> recent.cpa,
         cpa_30d        |-> baseline.cpa,
         cpc_7d         |-> recent.cpc,
         cpc_30d        |-> baseline.cpc]

\* df.groupby("creative_id")["campaign_name"].first().reset_index(): for each
\* creative the first campaign_name that is not null, null when all are
FirstCampaign(rows) ==
    LET named == SelectSeq(rows, LAMBDA r : r.campaign_name # None)
    IN  IF named = <<>> THEN None ELSE Head(named).campaign_name

\* the campaign names without the groupby: one for each record
CampaignNamesOfRecords(df) ==
    [i \in DOMAIN df |->
        [creative_id |-> df[i].creative_id, campaign_name |-> df[i].campaign_name]]

CampaignNames(df) ==
    LET cids == SetToSortedSeq(CidSet(df))
    IN  [i \in DOMAIN cids |->
            [creative_id   |-> cids[i],
             campaign_name |-> FirstCampaign(
                 SelectSeq(df, LAMBDA r : r.creative_id = cids[i]))]]

WithCampaign(row, name) ==
    [f \in DOMAIN row \cup {"campaign_name"} |->
        IF f = "campaign_name" THEN name ELSE row[f]]

\* combined.merge(right, on="creative_id", how="left"): a row of the left frame
\* for each row of the right frame with its creative_id, one with a null when
\* there is none
RECURSIVE Merge(_, _)
Merge(left, right) ==
    IF left = <<>> THEN <<>>
    ELSE LET row     == Head(left)
             matches == SelectSeq(right, LAMBDA r : r.creative_id = row.creative_id)
         IN  (IF matches = <<>>
              THEN <<WithCampaign(row, None)>>
              ELSE [i \in DOMAIN matches |-> WithCampaign(row, matches[i].campaign_name)])
             \o Merge(Tail(left), right)

\* the columns of the frame returned for an empty table, and for any other
EmptyColumns ==
    <<"creative_id", "status", "fatigue_score", "ctr_drop", "cvr_drop",
      "roas_drop", "cpa_increase", "cpc_increase", "notes">>

ResultColumns ==
    <<"creative_id", "status", "fatigue_score", "impressions", "clicks", "ctr",
      "conversions", "spend", "revenue", "ctr_drop", "cvr_drop", "roas_drop",
      "cpa_increase", "cpc_increase", "notes", "impressions_7d", "ctr_7d",
      "ctr_30d", "roas_7d", "roas_30d", "cvr_7d", "cvr_30d", "cpa_7d", "cpa_30d",
      "cpc_7d", "cpc_30d", "campaign_name">>

\* the frame detect_fatigue returns for a table
DetectFatigue(table) ==
    IF table.rows = <<>>
    THEN [called |-> TRUE, columns |-> EmptyColumns, rows |-> <<>>]
    ELSE LET df              == SortValues(table.rows)
             max_date        == MaxDate(df)
             recent_cutoff   == max_date - (RECENT_WINDOW_DAYS - 1)
             baseline_cutoff == max_date - (BASELINE_WINDOW_DAYS - 1)
             recent_df       == Since(df, recent_cutoff)
             in_baseline     == Since(df, baseline_cutoff)
             baseline_df     == IF in_baseline = <<>> THEN df ELSE in_baseline
             total_metrics    == AggregateMetrics(df)
             recent_metrics   == AggregateMetrics(recent_df)
             baseline_metrics == AggregateMetrics(baseline_df)
             cids     == SetToSortedSeq(DOMAIN total_metrics)
             combined == [i \in DOMAIN cids |->
                             FatigueRow(cids[i], total_metrics[cids[i]],
                                        JoinLeft(recent_metrics, cids[i]),
                                        JoinLeft(baseline_metrics, cids[i]))]
         IN  [called  |-> TRUE,
              columns |-> ResultColumns,
              rows    |-> IF table.has_campaign
                          THEN Merge(combined, CampaignNames(df))
                          ELSE [i \in DOMAIN combined |-> WithCampaign(combined[i], None)]]

detect_fatigue ==
    /\ flags' = DetectFatigue(perf)
    /\ UNCHANGED <<cache, call, ret, request, perf, threads, actions, queue, qcall, clients>>

\* ------------------------------------------------------------ agent actions

\* AgentAction.result_message: None, or the words of the message
NoMessage == <<>>

\* models.AgentAction with its defaults: not approved, not executed, no message
AgentAction(action_type, target_platform, target_id, reason) ==
    [action_type     |-> action_type,
     target_platform |-> target_platform,
     target_id       |-> target_id,
     params          |-> [reason |-> reason],
     approved        |-> FALSE,
     executed        |-> FALSE,
     result_message  |-> NoMessage]

\* the actions of one row of the flagged table: a row with an empty
\* creative_id is skipped, then fatigued pauses and fatigue-risk updates
ActionsOfRowByStatus(r, platform) ==
    IF r.creative_id = "" THEN <<>>
    ELSE IF r.status = "fatigued"
         THEN <<AgentAction("update_copy", platform, r.creative_id, "fatigued")>>
    ELSE IF r.status = "fatigue-risk"
         THEN <<AgentAction("pause_ad", platform, r.creative_id, "fatigue-risk")>>
    ELSE <<>>

ActionsOfRow(r, platform) ==
    IF r.creative_id = "" THEN <<>>
    ELSE IF r.status = "fatigued"
         THEN <<AgentAction("pause_ad", platform, r.creative_id, "fatigued")>>
    ELSE IF r.status = "fatigue-risk"
         THEN <<AgentAction("update_copy", platform, r.creative_id, "fatigue-risk")>>
    ELSE <<>>

RECURSIVE ActionsFromFatigue(_, _)
ActionsFromFatigue(rows, platform) ==
    IF rows = <<>> THEN <<>>
    ELSE ActionsOfRow(Head(rows), platform) \o ActionsFromFatigue(Tail(rows), platform)

Platforms == {"meta", "google"}

NoActions == [called |-> FALSE, platform |-> None, list |-> <<>>]

\* actions_from_fatigue(perf_with_flags, platform) on the table detect_fatigue
\* returned
actions_from_fatigue ==
    /\ flags.called
    /\ \E platform \in Platforms :
          actions' = [called   |-> TRUE,
                      platform |-> platform,
                      list     |-> ActionsFromFatigue(flags.rows, platform)]
    /\ UNCHANGED <<cache, call, ret, request, perf, flags, threads, queue, qcall, clients>>

\* ------------------------------------------------------------ ApprovalQueue

\* the file ApprovalQueue.__init__ writes when there is none: "[]"
EmptyQueue == <<>>

\* what an ApprovalQueue method returned: None, or the action it wrote
ReturnedNone == [none |-> TRUE, action |-> AgentAction(None, None, None, None)]
Returned(action) == [none |-> FALSE, action |-> action]

QueueCall(name, idx, approved, returned) ==
    [name |-> name, idx |-> idx, approved |-> approved, returned |-> returned]

NoQueueCall == QueueCall(None, 0, FALSE, ReturnedNone)

\* 0 <= idx < len(items), on the 1-based sequences of the model
InRange(idx, items) == 0 <= idx /\ idx < Len(items)

\* items[idx], and the list with items[idx] replaced
ItemAt(items, idx) == items[idx + 1]
WithItem(items, idx, item) == [items EXCEPT ![idx + 1] = item]

ExecutedMessage(a) == <<"Executed", a.action_type, "on", a.target_platform, a.target_id>>
NotApprovedMessage == <<"Not approved">>

\* the item execute writes back: untouched but for the message when it is not
\* approved, executed with its message when it is
ExecutedUnconditionally(a) ==
    [a EXCEPT !.executed = TRUE, !.result_message = ExecutedMessage(a)]

ExecutedItem(a) ==
    IF ~a.approved
    THEN [a EXCEPT !.result_message = NotApprovedMessage]
    ELSE [a EXCEPT !.executed = TRUE, !.result_message = ExecutedMessage(a)]

ApprovedItem(a, approved) == [a EXCEPT !.approved = approved]

\* what each method makes of the list it loaded: the list it saves, and what
\* it returns
AddedTo(items, action) == Append(items, action)

\* the actions a caller adds: those actions_from_fatigue builds
QueueActions ==
    { AgentAction("pause_ad", "meta", "c1", "fatigued"),
      AgentAction("update_copy", "meta", "c2", "fatigue-risk") }

MaxQueue == 2

\* the indices a caller passes: those of the longest queue, one before and one
\* after
Indices == -1..MaxQueue

\* ApprovalQueue.add(action)
add ==
    /\ Len(queue) < MaxQueue
    /\ \E action \in QueueActions :
          /\ queue' = AddedTo(queue, action)
          /\ qcall' = QueueCall("add", 0, FALSE, ReturnedNone)
    /\ UNCHANGED <<cache, call, ret, request, perf, flags, threads, actions, clients>>

\* ApprovalQueue.approve(idx, approved)
approve ==
    /\ \E idx \in Indices, approved \in BOOLEAN :
          IF InRange(idx, queue)
          THEN LET item == ApprovedItem(ItemAt(queue, idx), approved)
               IN  /\ queue' = WithItem(queue, idx, item)
                   /\ qcall' = QueueCall("approve", idx, approved, Returned(item))
          ELSE /\ qcall' = QueueCall("approve", idx, approved, ReturnedNone)
               /\ UNCHANGED queue
    /\ UNCHANGED <<cache, call, ret, request, perf, flags, threads, actions, clients>>

\* ApprovalQueue.execute(idx)
execute ==
    /\ \E idx \in Indices :
          IF InRange(idx, queue)
          THEN LET item == ExecutedItem(ItemAt(queue, idx))
               IN  /\ queue' = WithItem(queue, idx, item)
                   /\ qcall' = QueueCall("execute", idx, FALSE, Returned(item))
          ELSE /\ qcall' = QueueCall("execute", idx, FALSE, ReturnedNone)
               /\ UNCHANGED queue
    /\ UNCHANGED <<cache, call, ret, request, perf, flags, threads, actions, clients>>

\* ApprovalQueue.clear()
clear ==
    /\ queue' = EmptyQueue
    /\ qcall' = QueueCall("clear", 0, FALSE, ReturnedNone)
    /\ UNCHANGED <<cache, call, ret, request, perf, flags, threads, actions, clients>>

\* The same methods statement by statement, for the clients of one queue file
\* (the sessions of the Streamlit app, the workers of the API): _load reads
\* the file into the client's items, the method changes its items, and _save
\* writes them back.
Clients == {"k1", "k2"}

IdleClient ==
    [pc |-> "idle", name |-> None, idx |-> 0, action |-> AgentAction(None, None, None, None),
     items |-> <<>>, returned |-> ReturnedNone]

NoClients == [k \in Clients |-> IdleClient]

\* items = self._load(), first statement of add, approve and execute
queue_load(k, name, idx, action) ==
    /\ clients[k].pc \in {"idle", "done"}
    /\ name = "add" => Len(queue) < MaxQueue
    /\ clients' = [clients EXCEPT ![k] =
                     [pc |-> "loaded", name |-> name, idx |-> idx, action |-> action,
                      items |-> queue, returned |-> ReturnedNone]]
    /\ UNCHANGED <<cache, call, ret, request, perf, flags, threads, actions, queue, qcall>>

\* the rest of the method: the change of the items and self._save(items), or
\* the return of None for an index out of range
queue_save(k) ==
    LET c == clients[k]
    IN  /\ c.pc = "loaded"
        /\ CASE c.name = "add" ->
                  /\ queue' = AddedTo(c.items, c.action)
                  /\ clients' = [clients EXCEPT ![k].pc = "done"]
             [] c.name = "approve" /\ InRange(c.idx, c.items) ->
                  LET item == ApprovedItem(ItemAt(c.items, c.idx), TRUE)
                  IN  /\ queue' = WithItem(c.items, c.idx, item)
                      /\ clients' = [clients EXCEPT ![k].pc = "done",
                                                    ![k].returned = Returned(item)]
             [] c.name = "execute" /\ InRange(c.idx, c.items) ->
                  LET item == ExecutedItem(ItemAt(c.items, c.idx))
                  IN  /\ queue' = WithItem(c.items, c.idx, item)
                      /\ clients' = [clients EXCEPT ![k].pc = "done",
                                                    ![k].returned = Returned(item)]
             [] OTHER ->
                  /\ clients' = [clients EXCEPT ![k].pc = "done"]
                  /\ UNCHANGED queue
        /\ UNCHANGED <<cache, call, ret, request, perf, flags, threads, actions, qcall>>

\* ------------------------------------------------------------ specification

NotCalled == [called |-> FALSE, columns |-> <<>>, rows |-> <<>>]
NoTable   == [has_campaign |-> FALSE, rows |-> <<>>]

\* create_test arguments
Config(a, b, c, d, split) == [a |-> a, b |-> b, c |-> c, d |-> d, split |-> split]

Request(table, metric, confidence_level) ==
    [table |-> table, metric |-> metric, confidence_level |-> confidence_level]

\* The registry: every operation, on tests of two variants, with the analyses
\* of a run made on one performance table.
RegistryConfigs == {Config("cr1", "cr2", None, None, NoSplit)}

RegistryRequests ==
    { Request(<<>>, "ctr", Norm(95, 100)),
      Request(<<PerfRow("cr1", <<100000,  5000, 1000, 10000,  1000>>),
                PerfRow("cr2", <<100000, 10000, 1000, 50000, 45000>>)>>,
              "ctr", Norm(95, 100)) }

Init ==
    /\ cache = EmptyDict
    /\ call = NoCall
    /\ ret = RetNothing
    /\ request \in RegistryRequests
    /\ perf = NoTable
    /\ flags = NotCalled
    /\ threads = NoThreads
    /\ actions = NoActions
    /\ queue = EmptyQueue
    /\ qcall = NoQueueCall
    /\ clients = NoClients

Next ==
    \/ create_test(RegistryConfigs)
    \/ start_test
    \/ pause_test
    \/ complete_test
    \/ analyze_test
    \/ get_test_summary

Spec == Init /\ [][Next]_vars

\* The analysis: analyze_test on every table, metric and confidence level of
\* the model, on tests of two or three variants.
AnalysisConfigs ==
    { Config("cr1", "cr1", None, None, NoSplit),
      Config("cr1", "cr2", None, None, NoSplit),
      Config("cr1", "cr2", "cr2", None, NoSplit) }

InitAnalysis ==
    /\ cache = EmptyDict
    /\ call = NoCall
    /\ ret = RetNothing
    /\ request \in {Request(t, m, cl) : t \in PerfTables, m \in Metrics, cl \in ConfLevels}
    /\ perf = NoTable
    /\ flags = NotCalled
    /\ threads = NoThreads
    /\ actions = NoActions
    /\ queue = EmptyQueue
    /\ qcall = NoQueueCall
    /\ clients = NoClients

\* the analysis is that of the first test created
NextAnalysis ==
    \/ (cache = EmptyDict /\ create_test(AnalysisConfigs))
    \/ analyze_test

SpecAnalysis == InitAnalysis /\ [][NextAnalysis]_vars

\* The creation: tests of two to four variants, with and without a
\* traffic_split of the caller, created, started and read.
CreateConfigs ==
    { Config("cr1", "cr2", None, None, split) : split \in {NoSplit} \cup SuppliedSplits }
    \cup { Config("cr1", "cr2", c, d, NoSplit) : c \in {None, "", "cr1"}, d \in {None, "cr2"} }
    \cup { Config("cr1", "cr2", "cr2", None, EvenSplit) }

NextCreate ==
    \/ create_test(CreateConfigs)
    \/ start_test
    \/ get_test_summary

SpecCreate == Init /\ [][NextCreate]_vars

\* The threads: two threads that each analyze a test once, on tables of their
\* own, their statements interleaved.
NextThreads ==
    \/ create_test(RegistryConfigs)
    \/ \E t \in Threads, test_id \in TestIds, req \in RegistryRequests :
          analyze_compute(t, test_id, req)
    \/ \E t \in Threads : analyze_store_metrics(t)
    \/ \E t \in Threads : analyze_store_confidence(t)
    \/ \E t \in Threads : analyze_store_winner(t)
    \/ \E t \in Threads : analyze_return(t)

SpecThreads == Init /\ [][NextThreads]_vars

\* The classifier: detect_fatigue on the tables of up to MaxRows daily records
\* of two creatives, and on the thirty-day decline of one creative.
MaxRows == 3

\* a daily record; dt is a day number, spend and revenue are cents
Daily(cid, dt, p, campaign) ==
    [creative_id |-> cid, dt |-> dt, impressions |-> p[1], clicks |-> p[2],
     conversions |-> p[3], spend |-> p[4], revenue |-> p[5],
     campaign_name |-> campaign]

\* day 40 is in the recent window of a table that holds it, and day 34 is the
\* first day of that window; day 30 is in its baseline window only, day 10 in
\* neither.  The columns of the records are
\* small multiples of one unit each, so that every rate the classifier
\* derives from their sums is a fraction of small integers.
DailyRows ==
    { Daily("c1", 10, <<1000, 40, 3, 100, 300>>, None),
      Daily("c1", 30, <<1000, 40, 3, 100, 300>>, "spring"),
      Daily("c1", 34, <<1000, 40, 3, 100, 300>>, None),
      Daily("c1", 40, <<1000, 40, 3, 100, 300>>, "summer"),
      Daily("c1", 40, <<1000, 10, 4, 200, 100>>, "summer"),
      Daily("c1", 40, << 400,  0, 0, 100,   0>>, None),
      Daily("c2", 10, <<1000, 10, 4, 200, 100>>, None),
      Daily("c2", 30, <<1000, 40, 3, 100, 300>>, None),
      Daily("c2", 40, <<1000, 40, 3, 100, 300>>, "spring"),
      Daily("c2", 40, << 400,  0, 0, 100,   0>>, "summer"),
      Daily("c2", 40, <<1000, 10, 1, 800,   0>>, None) }

FatigueTables ==
    {[has_campaign |-> h, rows |-> rows] :
        h \in BOOLEAN, rows \in UNION {[1..n -> DailyRows] : n \in 0..MaxRows}}

\* creative c1 on days -29..0 (day numbers 1..30): 1000 impressions a day, 50
\* clicks a day up to day -8 and 20 a day from day -7 on.  cvr and roas are
\* neutral: conversions are a tenth of the clicks and revenue twice the spend,
\* or all three are zero; spend is per click or per day.
DeclineClicks(dt) == IF dt <= 22 THEN 50 ELSE 20

DeclineRow(kind, dt) ==
    LET clk == DeclineClicks(dt)
    IN  CASE kind = "no spend"        -> Daily("c1", dt, <<1000, clk, 0, 0, 0>>, None)
          [] kind = "spend per click" ->
                 Daily("c1", dt, <<1000, clk, clk \div 10, 10 * clk, 20 * clk>>, None)
          [] kind = "spend per day"   ->
                 Daily("c1", dt, <<1000, clk, clk \div 10, 1000, 2000>>, None)

DeclineKinds == {"no spend", "spend per click", "spend per day"}

DeclineTable(kind) ==
    [has_campaign |-> FALSE, rows |-> [dt \in 1..BASELINE_WINDOW_DAYS |-> DeclineRow(kind, dt)]]

DeclineTables == {DeclineTable(kind) : kind \in DeclineKinds}

InitFatigue ==
    /\ cache = EmptyDict
    /\ call = NoCall
    /\ ret = RetNothing
    /\ request = Request(<<>>, "ctr", Norm(95, 100))
    /\ perf \in FatigueTables \cup DeclineTables
    /\ flags = NotCalled
    /\ threads = NoThreads
    /\ actions = NoActions
    /\ queue = EmptyQueue
    /\ qcall = NoQueueCall
    /\ clients = NoClients

NextFatigue == detect_fatigue

SpecFatigue == InitFatigue /\ [][NextFatigue]_vars

\* The agent: detect_fatigue and then actions_from_fatigue, on the tables of
\* up to MaxRows + 1 daily records of two creatives that hold a baseline and a
\* recent record of each.
ActionRows ==
    { Daily("c1", 30, <<1000, 40, 3, 100, 300>>, None),
      Daily("c1", 40, <<1000, 10, 4, 200, 100>>, None),
      Daily("c2", 30, <<1000, 40, 3, 100, 300>>, None),
      Daily("c2", 40, <<1000, 10, 1, 800,   0>>, None),
      Daily("c2", 40, << 400,  0, 0, 100,   0>>, None) }

ActionTables ==
    {[has_campaign |-> FALSE, rows |-> rows] :
        rows \in UNION {[1..n -> ActionRows] : n \in 0..(MaxRows + 1)}}

InitActions ==
    /\ cache = EmptyDict
    /\ call = NoCall
    /\ ret = RetNothing
    /\ request = Request(<<>>, "ctr", Norm(95, 100))
    /\ perf \in ActionTables
    /\ flags = NotCalled
    /\ threads = NoThreads
    /\ actions = NoActions
    /\ queue = EmptyQueue
    /\ qcall = NoQueueCall
    /\ clients = NoClients

NextActions ==
    \/ detect_fatigue
    \/ actions_from_fatigue

SpecActions == InitActions /\ [][NextActions]_vars

\* The approval queue: every method, one call at a time, on queues of up to
\* MaxQueue actions.
NextQueue ==
    \/ add
    \/ approve
    \/ execute
    \/ clear

SpecQueue == Init /\ [][NextQueue]_vars

\* The clients: a queue filled one add at a time, and then two clients of its
\* file that each make one call (an add, an approve or an execute), their
\* loads and saves interleaved.
NextClients ==
    \/ (clients = NoClients /\ add)
    \/ \E k \in Clients, action \in QueueActions :
          clients[k].pc = "idle" /\ queue_load(k, "add", 0, action)
    \/ \E k \in Clients, name \in {"approve", "execute"}, idx \in Indices :
          clients[k].pc = "idle" /\ queue_load(k, name, idx, IdleClient.action)
    \/ \E k \in Clients : queue_save(k)

SpecClients == Init /\ [][NextClients]_vars


\* The zero totals: detect_fatigue on tables of up to MaxRows daily records
\* that hold records without impressions, clicks, conversions, spend or
\* revenue, and analyze_test on tables of two variants with such totals.
ZeroRows ==
    { Daily("c1", 30, <<1000, 40, 3, 100, 300>>, None),
      Daily("c1", 30, <<1000, 40, 0,   0,   0>>, None),
      Daily("c1", 40, <<1000,  0, 0, 100,   0>>, None),
      Daily("c1", 40, <<   0,  0, 0,   0,   0>>, None),
      Daily("c2", 40, <<1000, 40, 3, 100, 300>>, None) }

ZeroTables ==
    {[has_campaign |-> FALSE, rows |-> rows] :
        rows \in UNION {[1..n -> ZeroRows] : n \in 0..MaxRows}}

ZeroRequests ==
    { Request(<<PerfRow("cr1", p), PerfRow("cr2", q)>>, m, Norm(95, 100)) :
        p \in SmallProfiles, q \in SmallProfiles, m \in Metrics }

InitZero ==
    /\ cache = EmptyDict
    /\ call = NoCall
    /\ ret = RetNothing
    /\ \/ request = Request(<<>>, "ctr", Norm(95, 100)) /\ perf \in ZeroTables
       \/ request \in ZeroRequests /\ perf = NoTable
    /\ flags = NotCalled
    /\ threads = NoThreads
    /\ actions = NoActions
    /\ queue = EmptyQueue
    /\ qcall = NoQueueCall
    /\ clients = NoClients

NextZero ==
    \/ detect_fatigue
    \/ (cache = EmptyDict /\ create_test(RegistryConfigs))
    \/ analyze_test

SpecZero == InitZero /\ [][NextZero]_vars

\* ------------------------------------------------------------ properties

\* the last call was an analyze_test that returned an analysis
Analysed ==
    /\ call.op = "analyze_test"
    /\ ret.kind = "dict"
    /\ ~ret.empty

\* the status changes of draft -> running -> (paused <-> running) -> completed
LifecycleSteps ==
    { <<"draft", "running">>, <<"running", "paused">>, <<"paused", "running">>,
      <<"running", "completed">>, <<"paused", "completed">> }

\* C1: every test is created in draft, and its status only ever moves along
\* draft -> running -> (paused <-> running) -> completed: never from draft to
\* paused or completed, never out of completed.
C1_StatusFollowsLifecycle ==
    [][ /\ \A t \in DOMAIN cache' \ DOMAIN cache : cache'[t].status = "draft"
        /\ \A t \in DOMAIN cache :
              cache'[t].status # cache[t].status
                  => <<cache[t].status, cache'[t].status>> \in LifecycleSteps ]_vars

\* C2: a row of the result whose impressions_7d is below 500 has status
\* fresh, whatever its fatigue_score and its drops and increases.
C2_LowVolumeIsFresh ==
    \A i \in DOMAIN flags.rows :
        flags.rows[i].impressions_7d < MIN_RECENT_IMPRESSIONS
            => flags.rows[i].status = "fresh"

\* a creative with recent impressions, fewer than 500, whose score is over the
\* fatigue threshold
C2_Witness ==
    \E i \in DOMAIN flags.rows :
        /\ flags.rows[i].impressions_7d > 0
        /\ flags.rows[i].impressions_7d < MIN_RECENT_IMPRESSIONS
        /\ RLe(FATIGUE_THRESHOLD, flags.rows[i].fatigue_score)
        /\ RLe(ROne, flags.rows[i].ctr_drop)
        /\ flags.rows[i].status = "fresh"

\* C3: the status of a row with impressions_7d >= 500 is decided by the
\* fatigue_score the row reports: fatigued exactly when it is >= 0.5,
\* fatigue-risk exactly when it is in [0.3, 0.5), fresh otherwise.
C3_StatusOfReportedScore ==
    \A i \in DOMAIN flags.rows :
        flags.rows[i].impressions_7d >= MIN_RECENT_IMPRESSIONS
            => flags.rows[i].status =
                   IF RLe(FATIGUE_THRESHOLD, flags.rows[i].fatigue_score) THEN "fatigued"
                   ELSE IF RLe(RISK_THRESHOLD, flags.rows[i].fatigue_score) THEN "fatigue-risk"
                   ELSE "fresh"

\* C4: the result for a table that is not empty has one row for each
\* creative_id of the table, and no other, with or without campaign_name.
C4_OneRowPerCreative ==
    (flags.called /\ perf.rows # <<>>)
    => /\ {flags.rows[i].creative_id : i \in DOMAIN flags.rows} = CidSet(perf.rows)
       /\ Len(flags.rows) = Cardinality(CidSet(perf.rows))

\* two creatives, one of them with records of two campaigns, merged in
C4_Witness ==
    /\ flags.called
    /\ perf.has_campaign
    /\ Len(flags.rows) = 2
    /\ \E i, j \in DOMAIN perf.rows :
          /\ perf.rows[i].creative_id = perf.rows[j].creative_id
          /\ perf.rows[i].campaign_name # None
          /\ perf.rows[j].campaign_name # None
          /\ perf.rows[i].campaign_name # perf.rows[j].campaign_name

\* C5: the result for an empty table has no rows and the columns of the
\* result for a table that is not empty.
C5_EmptyTableFullColumns ==
    (flags.called /\ perf.rows = <<>>)
    => (flags.rows = <<>> /\ flags.columns = ResultColumns)

\* the decline of c1 has been classified
DeclineClassified ==
    /\ flags.called
    /\ perf \in DeclineTables

C7_IdenticalVariantsNotSignificant ==
    ( /\ Analysed
      /\ ret.variants["a"].sample_size = ret.variants["b"].sample_size
      /\ ret.variants["a"].metric_value = ret.variants["b"].metric_value
      /\ RLt(RZero, request.confidence_level)
      /\ RLt(request.confidence_level, ROne) )
    => (ret.is_significant = FALSE /\ ret.winner = None)

\* identical data of two different creatives, on which the z test is run
C7_Witness ==
    /\ Analysed
    /\ request.metric = "ctr"
    /\ request.confidence_level = Norm(95, 100)
    /\ ret.variants["a"].creative_id # ret.variants["b"].creative_id
    /\ ret.variants["a"].sample_size = 100000
    /\ ret.variants["b"].sample_size = 100000
    /\ ret.variants["a"].metric_value = Norm(1, 10)
    /\ ret.variants["b"].metric_value = Norm(1, 10)
    /\ ret.is_significant = FALSE
    /\ ret.winner = None

\* an analysis of ctr at confidence 0.95, a at 10000/100000, b at 5000/100000
C8_Scenario ==
    /\ Analysed
    /\ request.metric = "ctr"
    /\ request.confidence_level = Norm(95, 100)
    /\ "impressions" \in DOMAIN ret.variants["a"]
    /\ "impressions" \in DOMAIN ret.variants["b"]
    /\ ret.variants["a"].impressions = 100000
    /\ ret.variants["a"].clicks = 10000
    /\ ret.variants["b"].impressions = 100000
    /\ ret.variants["b"].clicks = 5000

\* C8: ctr at confidence 0.95 with a at 10000/100000 and b at 5000/100000 is
\* significant with winner a; and whenever an analysis is significant, the
\* winner is the one of a and b with the strictly higher metric value.
C8_WinnerHasHigherMetric ==
    /\ C8_Scenario => (ret.is_significant = TRUE /\ ret.winner = "a")
    /\ (Analysed /\ ret.is_significant)
          => \/ /\ ret.winner = "a"
                /\ RLt(ret.variants["b"].metric_value, ret.variants["a"].metric_value)
             \/ /\ ret.winner = "b"
                /\ RLt(ret.variants["a"].metric_value, ret.variants["b"].metric_value)

C8_Witness ==
    /\ C8_Scenario
    /\ ret.winner = "a"
    /\ ret.is_significant = TRUE
    /\ cache[call.test_id].winner = "a"

\* C9: start_test, pause_test and complete_test on an unregistered test_id
\* return False, analyze_test and get_test_summary return an empty result, and
\* the registry is left as it was.
C9_UnknownTestLeavesRegistry ==
    [][ call'.test_id \notin DOMAIN cache
          => /\ call'.op \in {"start_test", "pause_test", "complete_test"}
                   => (ret' = RetBool(FALSE) /\ cache' = cache)
             /\ call'.op \in {"analyze_test", "get_test_summary"}
                   => (ret' = RetEmpty /\ cache' = cache) ]_vars

\* an analyze_test on an unregistered id, made while a started test is registered
C9_Witness ==
    /\ call.op = "analyze_test"
    /\ call.test_id \notin DOMAIN cache
    /\ ret = RetEmpty
    /\ \E t \in DOMAIN cache : cache[t].status = "running"

\* C10: an analysis on metric cpa or roas performs no significance test:
\* p_value is 1.0, there is no winner, it is not significant, and the winner
\* stored on the test is None.
C10_NoTestForCpaRoas ==
    (Analysed /\ request.metric \in {"cpa", "roas"})
    => /\ ret.p_value = POne
       /\ ret.winner = None
       /\ ret.is_significant = FALSE
       /\ cache[call.test_id].winner = None

\* the pooled proportion of slots a and b in the analysis returned
ReturnedPool ==
    PPool(ret.variants["a"].metric_value, ret.variants["a"].sample_size,
          ret.variants["b"].metric_value, ret.variants["b"].sample_size)

\* the analysis returned is of a degenerate statistic
Degenerate ==
    /\ Analysed
    /\ \/ ret.variants["a"].sample_size = 0
       \/ ret.variants["b"].sample_size = 0
       \/ ReturnedPool = RZero
       \/ ReturnedPool = ROne

\* C11: when slot a or slot b has sample size 0 (a variant without rows
\* included) or the pooled proportion is 0 or 1, at a confidence level in
\* [0, 1], no test is made: p_value is 1.0, there is no winner, the analysis
\* is not significant and the confidence_level stored on the test is 0.
C11_DegenerateIsUntested ==
    Degenerate
    => /\ ret.p_value = POne
       /\ ret.winner = None
       /\ ret.is_significant = FALSE
       /\ cache[call.test_id].winner = None
       /\ cache[call.test_id].confidence_level = StoredConfidence(POne)

\* two creatives that both have every impression clicked, at confidence 0
C11_Witness ==
    /\ Degenerate
    /\ request.metric = "ctr"
    /\ request.confidence_level = RZero
    /\ ret.variants["a"].creative_id # ret.variants["b"].creative_id
    /\ ret.variants["a"].sample_size > 0
    /\ ret.variants["b"].sample_size > 0
    /\ ReturnedPool = ROne
    /\ ret.p_value = POne

\* the sum of the fractions of a traffic_split
RECURSIVE SplitSum(_)
SplitSum(split) ==
    IF DOMAIN split = {} THEN RZero
    ELSE LET s == CHOOSE k \in DOMAIN split : TRUE
         IN  RAdd(split[s], SplitSum([k \in DOMAIN split \ {s} |-> split[k]]))

\* C12: the traffic_split of every registered test has the slots registered
\* on the test as its keys, and fractions that sum to 1.0.
C12_SplitCoversSlotsAndSumsToOne ==
    \A t \in DOMAIN cache :
        /\ DOMAIN cache[t].traffic_split = DOMAIN Variants(cache[t])
        /\ SplitSum(cache[t].traffic_split) = ROne

\* the fields of a test that no lifecycle call writes
FrameFields ==
    {"variant_a_id", "variant_b_id", "variant_c_id", "variant_d_id",
     "traffic_split", "confidence_level", "metrics", "created_at"}

\* C13: start_test, pause_test and complete_test on a registered test leave
\* every other test, and on the test its variant ids, traffic_split, metrics
\* and confidence_level as they were; the winner changes only in a
\* complete_test that is given one.
C13_LifecycleWritesStatusOnly ==
    [][ (call'.op \in {"start_test", "pause_test", "complete_test"}
            /\ call'.test_id \in DOMAIN cache)
        => /\ DOMAIN cache' = DOMAIN cache
           /\ \A t \in DOMAIN cache \ {call'.test_id} : cache'[t] = cache[t]
           /\ \A f \in FrameFields :
                 cache'[call'.test_id][f] = cache[call'.test_id][f]
           /\ cache'[call'.test_id].winner =
                 IF call'.op = "complete_test" /\ call'.winner # None
                 THEN call'.winner
                 ELSE cache[call'.test_id].winner ]_vars

\* C14: the winner stored on a test is null or a slot registered on the test.
C14_WinnerIsRegisteredSlot ==
    \A t \in DOMAIN cache :
        \/ cache[t].winner = None
        \/ /\ cache[t].winner \in Slots
           /\ cache[t].winner \in DOMAIN Variants(cache[t])

\* a confidence_level that analyze_test stores is 0, or 1 - p_value for a
\* p_value in (0, 1), and so in [0, 1]
InUnitInterval(confidence) ==
    \/ confidence = StoredConfidence(POne)
    \/ confidence.kind = "cdf" /\ RLt(RZero, confidence.z2)

\* C15: after an analyze_test that returns an analysis the test holds what
\* was returned: its metrics are the returned variants, its winner the
\* returned winner, its confidence_level 1 - p_value (0 when p_value is 1.0),
\* which is in [0, 1] and is the one returned; and a get_test_summary that
\* follows reports the same metrics, winner and confidence_level.
C15_StoredIsReturned ==
    [][ /\ Analysed'
           => LET test == cache'[call'.test_id]
              IN  /\ test.metrics = ret'.variants
                  /\ test.winner = ret'.winner
                  /\ test.confidence_level = StoredConfidence(ret'.p_value)
                  /\ test.confidence_level = ret'.confidence_level
                  /\ InUnitInterval(test.confidence_level)
        /\ (Analysed /\ call'.op = "get_test_summary" /\ call'.test_id = call.test_id)
           => /\ ret'.metrics = ret.variants
              /\ ret'.winner = ret.winner
              /\ ret'.confidence_level = ret.confidence_level ]_vars

\* the summary of a test whose analysis found b the winner
C15_Witness ==
    /\ call.op = "get_test_summary"
    /\ ret.kind = "dict"
    /\ ~ret.empty
    /\ ret.winner = "b"
    /\ ret.confidence_level.kind = "cdf"
    /\ ret.metrics # EmptyDict
    /\ ret.metrics["b"].sample_size > 0

\* both threads have analyzed the same registered test and returned
BothReturned ==
    /\ \A t \in Threads : threads[t].pc = "done" /\ threads[t].test_id \in DOMAIN cache
    /\ threads["t1"].test_id = threads["t2"].test_id

\* C16: when two analyze_test calls on one test have run concurrently and
\* returned, the metrics, confidence_level and winner stored on the test are
\* all those of one of the two calls.
C16_StoredIsOfOneCall ==
    BothReturned
    => \E t \in Threads :
          LET test == cache[threads[t].test_id]
          IN  /\ test.metrics = threads[t].results
              /\ test.confidence_level = StoredConfidence(threads[t].z.p_value)
              /\ test.winner = threads[t].z.winner

\* C17: the fatigue_score of every row of the result is in [0, 1].
C17_ScoreInUnitInterval ==
    \A i \in DOMAIN flags.rows :
        /\ RLe(RZero, flags.rows[i].fatigue_score)
        /\ RLe(flags.rows[i].fatigue_score, ROne)

\* every record of the table is in the 7 days that end at its last date
AllRecent ==
    /\ flags.called
    /\ perf.rows # <<>>
    /\ \A i \in DOMAIN perf.rows :
          perf.rows[i].dt >= MaxDate(perf.rows) - (RECENT_WINDOW_DAYS - 1)

\* C18: when every record is in the 7 days that end at max_date, the recent,
\* baseline and all-time aggregates of every creative are equal, every drop
\* and increase is 0, fatigue_score is 0 and status is fresh.
C18_AllRecentIsFresh ==
    AllRecent
    => /\ AggregateMetrics(Since(perf.rows, MaxDate(perf.rows) - (RECENT_WINDOW_DAYS - 1)))
             = AggregateMetrics(perf.rows)
       /\ \A i \in DOMAIN flags.rows :
             LET row == flags.rows[i]
             IN  /\ row.impressions_7d = row.impressions
                 /\ row.ctr_7d = row.ctr
                 /\ row.ctr_30d = row.ctr
                 /\ row.cvr_7d = row.cvr_30d
                 /\ row.roas_7d = row.roas_30d
                 /\ row.cpa_7d = row.cpa_30d
                 /\ row.cpc_7d = row.cpc_30d
                 /\ row.ctr_drop = RZero
                 /\ row.cvr_drop = RZero
                 /\ row.roas_drop = RZero
                 /\ row.cpa_increase = RZero
                 /\ row.cpc_increase = RZero
                 /\ row.fatigue_score = RZero
                 /\ row.status = "fresh"

\* records of the first and of the last day of the window, of unlike rates
C18_Witness ==
    /\ AllRecent
    /\ \E i, j \in DOMAIN perf.rows :
          /\ perf.rows[i].creative_id = perf.rows[j].creative_id
          /\ perf.rows[i].dt = perf.rows[j].dt - (RECENT_WINDOW_DAYS - 1)
          /\ perf.rows[i].clicks # perf.rows[j].clicks
    /\ \E i \in DOMAIN flags.rows :
          /\ flags.rows[i].impressions_7d = 2000
          /\ flags.rows[i].status = "fresh"

\* a table with the records at positions i and i + 1 exchanged
Exchanged(table, i) ==
    [table EXCEPT !.rows = [k \in DOMAIN table.rows |->
                               IF k = i THEN table.rows[i + 1]
                               ELSE IF k = i + 1 THEN table.rows[i]
                               ELSE table.rows[k]]]

\* the rows of a result without their campaign_name
Measures(result) ==
    [i \in DOMAIN result.rows |->
        [f \in DOMAIN result.rows[i] \ {"campaign_name"} |-> result.rows[i][f]]]

\* C19: the status, fatigue_score, drops, increases and aggregates reported
\* for each creative do not depend on the order of the records: they are the
\* same after any two adjacent records are exchanged, and so, the tables
\* being all the sequences of their records, after any permutation.
C19_OrderOfRecordsIsIrrelevant ==
    flags.called
    => \A i \in 1..(Len(perf.rows) - 1) :
          Measures(DetectFatigue(Exchanged(perf, i))) = Measures(flags)

\* a creative whose later record comes first, and is classified as not fresh
C19_Witness ==
    /\ flags.called
    /\ Len(perf.rows) >= 2
    /\ perf.rows[1].creative_id = perf.rows[2].creative_id
    /\ perf.rows[1].dt > perf.rows[2].dt
    /\ perf.rows[1].clicks # perf.rows[2].clicks
    /\ \E i \in DOMAIN flags.rows : flags.rows[i].status # "fresh"

\* the keys the analysis declares for the entry of a variant
VariantKeys ==
    {"creative_id", "metric_value", "sample_size", "std_error", "impressions",
     "clicks", "conversions", "spend", "revenue"}

\* C20: in an analysis every registered variant key has an entry, and every
\* entry has all of creative_id, metric_value, sample_size, std_error,
\* impressions, clicks, conversions, spend and revenue.
C20_VariantEntriesAreComplete ==
    Analysed
    => /\ DOMAIN ret.variants = DOMAIN Variants(cache[call.test_id])
       /\ \A s \in DOMAIN ret.variants : DOMAIN ret.variants[s] = VariantKeys

\* the actions of the returned list that are of one type and target one creative
ActionsFor(action_type, cid) ==
    {j \in DOMAIN actions.list :
        /\ actions.list[j].action_type = action_type
        /\ actions.list[j].target_id = cid}

FlaggedRows == {i \in DOMAIN flags.rows : flags.rows[i].status # "fresh"}

ExecuteStep == qcall'.name = "execute"

\* C22: execute(idx) sets executed to True only on an action that is approved;
\* on an action that is not approved it leaves executed as it was and records
\* the result_message "Not approved"; for an index out of range it returns
\* None and leaves the queue as it was.
C22_ExecuteNeedsApproval ==
    [][ExecuteStep =>
          LET idx == qcall'.idx
          IN  IF 0 <= idx /\ idx < Len(queue)
              THEN LET before == queue[idx + 1]
                       after  == queue'[idx + 1]
                   IN  /\ Len(queue') = Len(queue)
                       /\ \A i \in DOMAIN queue : i # idx + 1 => queue'[i] = queue[i]
                       /\ after.approved = before.approved
                       /\ (after.executed /\ ~before.executed) => before.approved
                       /\ ~before.approved =>
                             /\ after.executed = before.executed
                             /\ after.result_message = <<"Not approved">>
                       /\ ~qcall'.returned.none
                       /\ qcall'.returned.action = after
              ELSE /\ qcall'.returned.none
                   /\ queue' = queue]_vars

\* execute has refused an action that is not approved
C22_Witness ==
    /\ qcall.name = "execute"
    /\ ~qcall.returned.none
    /\ ~qcall.returned.action.approved
    /\ ~qcall.returned.action.executed
    /\ qcall.returned.action.result_message = <<"Not approved">>
    /\ queue[qcall.idx + 1] = qcall.returned.action

\* C27: in every state of the approval queue that add, approve (to True or
\* to False), execute and clear reach, an action that is executed is also
\* approved.
C27_ExecutedIsApproved ==
    \A i \in DOMAIN queue : queue[i].executed => queue[i].approved

\* the call of client k has returned, and it was an add, or an approve or
\* execute that found its action
Added(k) == clients[k].pc = "done" /\ clients[k].name = "add"
Flagged(k, name) ==
    clients[k].pc = "done" /\ clients[k].name = name /\ ~clients[k].returned.none

\* C29: the queue file loses no update of its clients: once a client's add has
\* returned the file holds the action it added, and once a client's approve
\* has returned the file holds the action at that index as approved.
C29_NoLostUpdate ==
    \A k \in Clients :
        /\ Added(k) =>
              \E i \in DOMAIN queue : queue[i].target_id = clients[k].action.target_id
        /\ Flagged(k, "approve") =>
              /\ clients[k].idx + 1 \in DOMAIN queue
              /\ queue[clients[k].idx + 1].approved

\* the total of a column over the records of one creative
TotalOf(rows, cid, col) == SumCol(VariantData(rows, cid), col)

\* the column a metric of analyze_test divides by
DenominatorOf(metric) ==
    CASE metric = "ctr"  -> "impressions"
      [] metric = "cvr"  -> "clicks"
      [] metric = "cpa"  -> "conversions"
      [] metric = "roas" -> "spend"

\* the rates of one window of a creative with a zero denominator are 0, and
\* so are the drops and increases over a baseline rate of 0
ZeroRates(rows, cid, ctr, cvr, roas, cpa, cpc) ==
    /\ TotalOf(rows, cid, "impressions") = 0 => ctr = RZero
    /\ TotalOf(rows, cid, "clicks") = 0      => (cvr = RZero /\ cpc = RZero)
    /\ TotalOf(rows, cid, "spend") = 0       => roas = RZero
    /\ TotalOf(rows, cid, "conversions") = 0 => cpa = RZero

ZeroBaseline(rows, cid, num, den, change) ==
    (TotalOf(rows, cid, num) = 0 \/ TotalOf(rows, cid, den) = 0) => change = RZero

\* C23: a zero denominator gives 0 and no error: in detect_fatigue every ctr,
\* cvr, roas, cpa and cpc (all-time, 7-day, 30-day) whose denominator is zero
\* is 0 and every drop or increase over a baseline of 0 is 0; in analyze_test
\* a metric whose denominator total is 0 has metric_value 0.
C23_ZeroDenominatorGivesZero ==
    /\ \A i \in DOMAIN flags.rows :
          LET row      == flags.rows[i]
              cid      == row.creative_id
              max_date == MaxDate(perf.rows)
              recent   == Since(perf.rows, max_date - (RECENT_WINDOW_DAYS - 1))
              baseline == Since(perf.rows, max_date - (BASELINE_WINDOW_DAYS - 1))
          IN  /\ TotalOf(perf.rows, cid, "impressions") = 0 => row.ctr = RZero
              /\ ZeroRates(recent, cid, row.ctr_7d, row.cvr_7d, row.roas_7d,
                           row.cpa_7d, row.cpc_7d)
              /\ ZeroRates(baseline, cid, row.ctr_30d, row.cvr_30d, row.roas_30d,
                           row.cpa_30d, row.cpc_30d)
              /\ ZeroBaseline(baseline, cid, "clicks", "impressions", row.ctr_drop)
              /\ ZeroBaseline(baseline, cid, "conversions", "clicks", row.cvr_drop)
              /\ ZeroBaseline(baseline, cid, "revenue", "spend", row.roas_drop)
              /\ ZeroBaseline(baseline, cid, "spend", "conversions", row.cpa_increase)
              /\ ZeroBaseline(baseline, cid, "spend", "clicks", row.cpc_increase)
    /\ Analysed =>
          \A s \in DOMAIN ret.variants :
              (\/ request.metric = "other"
               \/ TotalOf(request.table, ret.variants[s].creative_id,
                          DenominatorOf(request.metric)) = 0)
                  => ret.variants[s].metric_value = RZero

\* a creative that spent in the recent window without a click or a
\* conversion, over a baseline without spend
C23_Witness ==
    \E i \in DOMAIN flags.rows :
        LET cid    == flags.rows[i].creative_id
            recent == Since(perf.rows, MaxDate(perf.rows) - (RECENT_WINDOW_DAYS - 1))
        IN  /\ TotalOf(recent, cid, "spend") > 0
            /\ TotalOf(recent, cid, "clicks") = 0
            /\ TotalOf(recent, cid, "conversions") = 0
            /\ TotalOf(perf.rows, cid, "conversions") = 0
            /\ flags.rows[i].cpc_7d = RZero
            /\ flags.rows[i].cpa_7d = RZero
            /\ flags.rows[i].cpa_increase = RZero

\* the analysis returned is of a test of three or four variants
ManyVariants ==
    /\ Analysed
    /\ Cardinality(DOMAIN ret.variants) >= 3

NoRecentRecord(cid) ==
    \A i \in DOMAIN perf.rows :
        perf.rows[i].creative_id = cid
            => \E j \in DOMAIN perf.rows :
                  perf.rows[j].dt - perf.rows[i].dt >= RECENT_WINDOW_DAYS

\* C25: the windows end at the last date of the whole table: a creative with
\* no record in the 7 days that end there has impressions_7d = 0 and is fresh
\* with the note of insufficient recent volume.
C25_StaleCreativeIsFresh ==
    \A i \in DOMAIN flags.rows :
        NoRecentRecord(flags.rows[i].creative_id)
            => /\ flags.rows[i].impressions_7d = 0
               /\ flags.rows[i].status = "fresh"
               /\ flags.rows[i].notes = <<"Insufficient recent volume (<500 impressions)">>

\* a creative with impressions whose last record is 10 days before the last
\* record of another creative
C25_Witness ==
    \E i \in DOMAIN flags.rows :
        /\ NoRecentRecord(flags.rows[i].creative_id)
        /\ flags.rows[i].impressions >= MIN_RECENT_IMPRESSIONS
        /\ flags.rows[i].impressions_7d = 0
        /\ flags.rows[i].status = "fresh"
        /\ \E j \in DOMAIN flags.rows : flags.rows[j].impressions_7d > 0

DriverNames == {"CTR down", "CVR down", "ROAS down", "CPA up", "CPC up"}

\* C26: the notes of a row whose status is fatigue-risk or fatigued name at
\* least one driver; they are never "Performance stable" (nor the note of
\* insufficient volume), drivers that are all under their thresholds giving a
\* score under 0.3.
C26_FlaggedRowNamesDriver ==
    \A i \in DOMAIN flags.rows :
        flags.rows[i].status \in {"fatigue-risk", "fatigued"}
            => /\ flags.rows[i].notes # <<>>
               /\ flags.rows[i].notes # <<"Performance stable">>
               /\ \A n \in DOMAIN flags.rows[i].notes :
                     flags.rows[i].notes[n] \in DriverNames

\* a fatigue-risk row whose notes name its drivers
C26_Witness ==
    \E i \in DOMAIN flags.rows :
        /\ flags.rows[i].status = "fatigue-risk"
        /\ flags.rows[i].impressions_7d >= MIN_RECENT_IMPRESSIONS
        /\ Len(flags.rows[i].notes) >= 2
        /\ \A n \in DOMAIN flags.rows[i].notes : flags.rows[i].notes[n] \in DriverNames

\* C28: an analyze_test on a completed test leaves the winner, the
\* confidence_level and the status stored on the test as complete_test and
\* the analyses before it left them.
C28_CompletedKeepsWinner ==
    [][ \A t \in DOMAIN cache :
           (/\ cache[t].status = "completed"
            /\ call'.op = "analyze_test"
            /\ call'.test_id = t)
               => /\ cache'[t].winner = cache[t].winner
                  /\ cache'[t].confidence_level = cache[t].confidence_level
                  /\ cache'[t].status = cache[t].status ]_vars

\* C30: in every analysis returned for a confidence_level in [0, 1],
\* is_significant is True exactly when there is a winner, and the metric
\* value of the winner is then strictly greater than that of the other of a
\* and b.
C30_SignificantIffWinner ==
    (/\ Analysed
     /\ RLe(RZero, request.confidence_level)
     /\ RLe(request.confidence_level, ROne))
    => /\ ret.is_significant <=> ret.winner # None
       /\ ret.winner # None
             => LET other == IF ret.winner = "a" THEN "b" ELSE "a"
                IN  /\ ret.winner \in {"a", "b"}
                    /\ RLt(ret.variants[other].metric_value,
                           ret.variants[ret.winner].metric_value)

\* b wins an analysis at a confidence level under 0.95
C30_Witness ==
    /\ Analysed
    /\ RLt(request.confidence_level, Norm(95, 100))
    /\ ret.is_significant
    /\ ret.winner = "b"
    /\ RLt(ret.variants["a"].metric_value, ret.variants["b"].metric_value)

====
